---- MODULE Spec2Model ----
(***************************************************************************)
(* State-machine model of the Pavlovia dialog helpers                      *)
(* (app/pavlovia_ui/functions.py) and of the keyboard joystick emulation   *)
(* (experiment/components/joyButtons/keyboardJoystick.py).                 *)
(*                                                                         *)
(* Strings that the code concatenates or splits are tuples of one          *)
(* character strings, so that concatenation and os.path.split are computed *)
(* rather than assumed.  Each function has its own specification; the      *)
(* variables of the other functions stay at their initial values.          *)
(***************************************************************************)
EXTENDS Integers, Sequences, FiniteSets, TLC

VARIABLES
    \* ---- showCommitDialog ----
    cpc,          \* position in showCommitDialog
    changeDict,   \* categorised mapping returned by project.getChanges()
    changeList,   \* flat list returned by project.getChanges()
    infoStr,      \* the lines added to "Changes to commit:"
    commitDlg,    \* the commit dialog: "none", "modal", or the id ShowModal gave
    commitTitleCtrl,  \* value of the summary control
    commitDescrCtrl,  \* value of the details control
    commitMsg,    \* local commitMsg
    projCalls,    \* calls made on the project during this invocation
    cret,         \* value returned by showCommitDialog
    \* ---- setLocalPath ----
    ppc,          \* position in setLocalPath
    project,      \* the project argument (NoProject when None)
    path,         \* the path argument
    origPath,     \* local origPath
    newPath,      \* local newPath
    dirDlg,       \* the DirDialog: "none", "modal", or the id ShowModal gave
    chosen,       \* dlg.GetPath()
    isfile,       \* os.path.isfile(dlg.GetPath())
    projectAtCall,  \* the project argument as it was passed
    pret,         \* value returned by setLocalPath
    \* ---- logInPavlovia / logOutPavlovia ----
    apc,          \* position in logInPavlovia / logOutPavlovia
    session,      \* the pavlovia session of the process
    tokenInfo,    \* dlg.tokenInfo of the login browser
    loginDlg,     \* life cycle of the loginOnly browser
    logoutDlg,    \* life cycle of the logoutOnly browser
    cookie,       \* credential state cached by the browser
    authCalls,    \* calls made during this invocation
    aret,         \* value returned by logInPavlovia / logOutPavlovia
    acall,        \* the function running or run last
    lastCall,     \* the function run before acall
    lastOut,      \* state left by the last completed logOutPavlovia
    \* ---- Joystick ----
    kb,           \* key events the keyboard reports
    state,        \* self.state
    jret,         \* value returned by the last getAllButtons
    jnum,         \* value returned by the last getNumButtons
    fresh         \* no key event since the last getAllButtons

cvars == <<cpc, changeDict, changeList, infoStr, commitDlg, commitTitleCtrl,
           commitDescrCtrl, commitMsg, projCalls, cret>>
pvars == <<ppc, project, path, origPath, newPath, dirDlg, chosen, isfile,
           projectAtCall, pret>>
avars == <<apc, session, tokenInfo, loginDlg, logoutDlg, cookie, authCalls,
           aret, acall, lastCall, lastOut>>
jvars == <<kb, state, jret, jnum, fresh>>
vars == <<cvars, pvars, avars, jvars>>

\* Python's None, and a value that is present
None == <<>>
Some(v) == <<v>>

SeqUpTo(S, n) == UNION {[1..k -> S] : k \in 0..n}

(***************************************************************************)
(* showCommitDialog                                                        *)
(***************************************************************************)
MaxFiles == 2
MaxStr == 2

Files == {"a.txt", "b.txt"}
Chars == {"x", "\n"}
Strings == SeqUpTo(Chars, MaxStr)
InitMsgs == {<<>>, <<"x">>}

Categories == <<"untracked", "changed", "deleted", "renamed">>

\* project.getChanges(): the flat list extends [] by every category in turn
FlatList(cd) ==
    cd["untracked"] \o cd["changed"] \o cd["deleted"] \o cd["renamed"]

\* the change sets with at most MaxFiles files in all
ChangeDicts ==
    {cd \in [{Categories[i] : i \in 1..4} -> SeqUpTo(Files, MaxFiles)] :
        Len(FlatList(cd)) <= MaxFiles}

getChanges == {<<cd, FlatList(cd)>> : cd \in ChangeDicts}

\* "if not changeList"
NothingToCommitAlways(cl) == FALSE
NothingToCommit(cl) == cl = <<>>

\* categ.title() after 'untracked' is replaced by 'New'
Label(categ) ==
    CASE categ = "untracked" -> "New"
      [] categ = "changed"   -> "Changed"
      [] categ = "deleted"   -> "Deleted"
      [] categ = "renamed"   -> "Renamed"

RECURSIVE InfoLines(_, _)
InfoLines(cd, i) ==
    IF i > 4 THEN <<>>
    ELSE LET changes == cd[Categories[i]]
             rest == InfoLines(cd, i + 1)
         IN  IF changes # <<>>
             THEN <<[label |-> Label(Categories[i]), n |-> Len(changes)]>> \o rest
             ELSE rest

ModalResults == {"ID_OK", "ID_CANCEL"}

\* "dlg.ShowModal() == wx.ID_CANCEL"
CancelledNever(r) == FALSE
Cancelled(r) == r = "ID_CANCEL"

\* commitMsg = title; if descr: commitMsg += "\n\n" + descr
BuildCommitMsgAlwaysJoin(s, d) == s \o <<"\n", "\n">> \o d
BuildCommitMsg(s, d) ==
    IF d # <<>> THEN s \o <<"\n", "\n">> \o d ELSE s

\* project.stageFiles(changeList)
stageFilesDropFirst(calls, cl) ==
    Append(calls, [op |-> "stageFiles", arg |-> Tail(cl)])
stageFiles(calls, cl) == Append(calls, [op |-> "stageFiles", arg |-> cl])

\* project.commit(commitMsg)
commit(calls, msg) == Append(calls, [op |-> "commit", arg |-> msg])

InitCommit ==
    /\ cpc = "Idle"
    /\ changeDict = [c \in {Categories[i] : i \in 1..4} |-> <<>>]
    /\ changeList = <<>>
    /\ infoStr = <<>>
    /\ commitDlg = "none"
    /\ commitTitleCtrl = <<>>
    /\ commitDescrCtrl = <<>>
    /\ commitMsg = <<>>
    /\ projCalls = <<>>
    /\ cret = None

\* lines 93-139: getChanges, the early return and the dialog construction
showCommitDialog ==
    /\ cpc = "Idle"
    /\ \E ch \in getChanges, initMsg \in InitMsgs :
          /\ changeDict' = ch[1]
          /\ changeList' = ch[2]
          /\ IF NothingToCommit(ch[2])
             THEN /\ cret' = Some(0)
                  /\ cpc' = "Return"
                  /\ infoStr' = <<>>
                  /\ commitDlg' = "none"
                  /\ commitTitleCtrl' = <<>>
             ELSE /\ infoStr' = InfoLines(ch[1], 1)
                  /\ commitDlg' = "modal"
                  /\ commitTitleCtrl' = initMsg
                  /\ cpc' = "AwaitUserInput"
                  /\ cret' = None
    /\ commitDescrCtrl' = <<>>
    /\ commitMsg' = <<>>
    /\ projCalls' = <<>>
    /\ UNCHANGED <<pvars, avars, jvars>>

\* lines 140-145: ShowModal returns r with s and d left in the two controls
ShowModalReturns(r, s, d) ==
    /\ cpc = "AwaitUserInput"
    /\ commitDlg' = r
    /\ commitTitleCtrl' = s
    /\ commitDescrCtrl' = d
    /\ IF Cancelled(r)
       THEN /\ cret' = Some(-1)
            /\ cpc' = "Return"
            /\ UNCHANGED commitMsg
       ELSE /\ commitMsg' = BuildCommitMsg(s, d)
            /\ cpc' = "Stage"
            /\ UNCHANGED cret
    /\ UNCHANGED <<changeDict, changeList, infoStr, projCalls>>
    /\ UNCHANGED <<pvars, avars, jvars>>

\* the user presses Cancel (or closes the dialog)
UserCancels ==
    \E s \in Strings, d \in Strings : ShowModalReturns("ID_CANCEL", s, d)

\* the user presses OK
UserConfirms ==
    \E s \in Strings, d \in Strings : ShowModalReturns("ID_OK", s, d)

\* line 146
Stage ==
    /\ cpc = "Stage"
    /\ projCalls' = stageFiles(projCalls, changeList)
    /\ cpc' = "Commit"
    /\ UNCHANGED <<changeDict, changeList, infoStr, commitDlg, commitTitleCtrl,
                   commitDescrCtrl, commitMsg, cret>>
    /\ UNCHANGED <<pvars, avars, jvars>>

\* lines 148-149
Commit ==
    /\ cpc = "Commit"
    /\ projCalls' = commit(projCalls, commitMsg)
    /\ cret' = Some(1)
    /\ cpc' = "Return"
    /\ UNCHANGED <<changeDict, changeList, infoStr, commitDlg, commitTitleCtrl,
                   commitDescrCtrl, commitMsg>>
    /\ UNCHANGED <<pvars, avars, jvars>>

\* the caller has the result; the helper may be invoked again
CommitReturn ==
    /\ cpc = "Return"
    /\ cpc' = "Idle"
    /\ changeDict' = [c \in {Categories[i] : i \in 1..4} |-> <<>>]
    /\ changeList' = <<>>
    /\ infoStr' = <<>>
    /\ commitDlg' = "none"
    /\ commitTitleCtrl' = <<>>
    /\ commitDescrCtrl' = <<>>
    /\ commitMsg' = <<>>
    /\ projCalls' = <<>>
    /\ cret' = None
    /\ UNCHANGED <<pvars, avars, jvars>>

NextCommit ==
    \/ showCommitDialog
    \/ UserCancels
    \/ UserConfirms
    \/ Stage
    \/ Commit
    \/ CommitReturn

(***************************************************************************)
(* setLocalPath                                                            *)
(***************************************************************************)
MaxDepth == 2

Names == {"a", "f"}

RECURSIVE PathsUpTo(_)
PathsUpTo(k) ==
    IF k = 0 THEN {<<>>}
    ELSE PathsUpTo(k - 1)
         \cup {p \o <<"/", n>> : p \in PathsUpTo(k - 1), n \in Names}

\* "", "/", "/a", "/f", "/a/a", "/a/f", ...
Paths == PathsUpTo(MaxDepth) \cup {<<"/">>}

NoProject == None

\* a project whose localRoot is None has no 'localRoot' entry
Projects == {NoProject}
            \cup {Some(r) : r \in [localRoot : {None} \cup {Some(q) : q \in Paths}]}

\* p.rfind('/') + 1
RECURSIVE RFindSlash(_, _)
RFindSlash(p, i) ==
    IF i = 0 THEN 0
    ELSE IF p[i] = "/" THEN i ELSE RFindSlash(p, i - 1)

\* head.rstrip('/')
RECURSIVE RStripSlash(_)
RStripSlash(p) ==
    IF p # <<>> /\ p[Len(p)] = "/"
    THEN RStripSlash(SubSeq(p, 1, Len(p) - 1))
    ELSE p

\* os.path.split(p)[0]
SplitHeadKeepAll(p) == p
SplitHead(p) ==
    LET i == RFindSlash(p, Len(p))
        head == SubSeq(p, 1, i)
    IN  IF head # <<>> /\ \E j \in 1..Len(head) : head[j] # "/"
        THEN RStripSlash(head)
        ELSE head

\* lines 31-36
DefaultPath(proj, pth) ==
    IF pth # <<>> THEN pth
    ELSE IF proj # NoProject /\ proj[1].localRoot # None
         THEN proj[1].localRoot[1]
    ELSE <<>>

InitPath ==
    /\ ppc = "Idle"
    /\ project = NoProject
    /\ projectAtCall = NoProject
    /\ path = <<>>
    /\ origPath = <<>>
    /\ newPath = None
    /\ dirDlg = "none"
    /\ chosen = None
    /\ isfile = FALSE
    /\ pret = None

\* lines 31-43: the default path is taken and the DirDialog is shown
setLocalPath ==
    /\ ppc = "Idle"
    /\ \E proj \in Projects, pth \in Paths :
          /\ project' = proj
          /\ projectAtCall' = proj
          /\ path' = pth
          /\ origPath' = DefaultPath(proj, pth)
    /\ dirDlg' = "modal"
    /\ newPath' = None
    /\ chosen' = None
    /\ isfile' = FALSE
    /\ pret' = None
    /\ ppc' = "Modal"
    /\ UNCHANGED <<cvars, avars, jvars>>

\* lines 43-50: ShowModal returns wx.ID_OK, GetPath gives c
DirDialogOK ==
    /\ ppc = "Modal"
    /\ \E c \in Paths, f \in BOOLEAN :
          /\ f => c \notin {<<>>, <<"/">>}
          /\ chosen' = Some(c)
          /\ isfile' = f
          /\ LET np == IF f THEN SplitHead(c) ELSE c
             IN  /\ newPath' = Some(np)
                 /\ IF np # origPath /\ project # NoProject
                    THEN project' = Some([project[1] EXCEPT !.localRoot = Some(np)])
                    ELSE UNCHANGED project
                 /\ pret' = Some(np)
    /\ dirDlg' = "ID_OK"
    /\ ppc' = "Return"
    /\ UNCHANGED <<path, origPath, projectAtCall>>
    /\ UNCHANGED <<cvars, avars, jvars>>

\* line 43: ShowModal returns wx.ID_CANCEL; the function falls off its end
DirDialogCancel ==
    /\ ppc = "Modal"
    /\ dirDlg' = "ID_CANCEL"
    /\ pret' = None
    /\ ppc' = "Return"
    /\ UNCHANGED <<project, path, origPath, newPath, chosen, isfile,
                   projectAtCall>>
    /\ UNCHANGED <<cvars, avars, jvars>>

PathReturn ==
    /\ ppc = "Return"
    /\ ppc' = "Idle"
    /\ project' = NoProject
    /\ projectAtCall' = NoProject
    /\ path' = <<>>
    /\ origPath' = <<>>
    /\ newPath' = None
    /\ dirDlg' = "none"
    /\ chosen' = None
    /\ isfile' = FALSE
    /\ pret' = None
    /\ UNCHANGED <<cvars, avars, jvars>>

NextPath ==
    \/ setLocalPath
    \/ DirDialogOK
    \/ DirDialogCancel
    \/ PathReturn

(***************************************************************************)
(* logInPavlovia and logOutPavlovia                                        *)
(***************************************************************************)
Tokens == {"t1", "t2"}

EmptyDict == <<>>

\* dlg.tokenInfo once ShowModal has returned: still empty when the window was
\* closed, holding the token when the login was completed
TokenInfos == {EmptyDict} \cup {[token |-> t] : t \in Tokens}

\* truth value of a dict
Truthy(d) == DOMAIN d # {}

\* the gitlab user a token belongs to
UserOf(t) == <<"user", t>>

\* pavlovia.login(token, rememberMe)
pavloviaLogin(token, rememberMe) ==
    Some([token |-> token, rememberMe |-> rememberMe])

\* pavlovia.logout()
pavloviaLogout == None

\* pavlovia.getCurrentSession().user
CurrentUser(sess) == IF sess = None THEN None ELSE Some(UserOf(sess[1].token))

\* line 63: "if dlg.tokenInfo"
HasTokenAlways(ti) == TRUE
HasToken(ti) == Truthy(ti)

\* lines 64-65: the arguments of pavlovia.login
LoginArgsForget(ti) == [token |-> ti["token"], rememberMe |-> FALSE]
LoginArgs(ti) == [token |-> ti["token"], rememberMe |-> TRUE]

InitAuth ==
    /\ apc = "Idle"
    /\ session = None
    /\ tokenInfo = EmptyDict
    /\ loginDlg = "none"
    /\ logoutDlg = "none"
    /\ cookie = FALSE
    /\ authCalls = <<>>
    /\ aret = None
    /\ acall = "none"
    /\ lastCall = "none"
    /\ lastOut = None

\* lines 61-62: the loginOnly browser is created and shown
logInPavlovia ==
    /\ apc = "Idle"
    /\ acall' = "logInPavlovia"
    /\ lastCall' = acall
    /\ loginDlg' = "modal"
    /\ logoutDlg' = "none"
    /\ tokenInfo' = EmptyDict
    /\ authCalls' = <<>>
    /\ aret' = None
    /\ apc' = "LoginModal"
    /\ UNCHANGED <<session, cookie, lastOut>>
    /\ UNCHANGED <<cvars, pvars, jvars>>

\* lines 62-63: ShowModal returns with ti in dlg.tokenInfo
LoginModalReturns(ti) ==
    /\ apc = "LoginModal"
    /\ tokenInfo' = ti
    /\ cookie' = (cookie \/ Truthy(ti))
    /\ loginDlg' = "closed"
    /\ IF HasToken(ti)
       THEN /\ apc' = "Login"
            /\ UNCHANGED aret
       ELSE /\ aret' = None
            /\ apc' = "Return"
    /\ UNCHANGED <<session, logoutDlg, authCalls, acall, lastCall, lastOut>>
    /\ UNCHANGED <<cvars, pvars, jvars>>

\* the user completes the login in the browser
LoginCompleted == \E t \in Tokens : LoginModalReturns([token |-> t])

\* the user closes the browser window
LoginDismissed == LoginModalReturns(EmptyDict)

\* lines 64-65
Login ==
    /\ apc = "Login"
    /\ LET a == LoginArgs(tokenInfo)
       IN  /\ session' = pavloviaLogin(a.token, a.rememberMe)
           /\ authCalls' = Append(authCalls, [op |-> "pavlovia.login", arg |-> a])
    /\ apc' = "ReadUser"
    /\ UNCHANGED <<tokenInfo, loginDlg, logoutDlg, cookie, aret, acall,
                   lastCall, lastOut>>
    /\ UNCHANGED <<cvars, pvars, jvars>>

\* line 66
ReadUser ==
    /\ apc = "ReadUser"
    /\ authCalls' = Append(authCalls,
                           [op |-> "pavlovia.getCurrentSession", arg |-> None])
    /\ aret' = CurrentUser(session)
    /\ apc' = "Return"
    /\ UNCHANGED <<session, tokenInfo, loginDlg, logoutDlg, cookie, acall,
                   lastCall, lastOut>>
    /\ UNCHANGED <<cvars, pvars, jvars>>

\* line 77
logOutPavlovia ==
    /\ apc = "Idle"
    /\ acall' = "logOutPavlovia"
    /\ lastCall' = acall
    /\ session' = pavloviaLogout
    /\ authCalls' = <<[op |-> "pavlovia.logout", arg |-> None]>>
    /\ logoutDlg' = "none"
    /\ aret' = None
    /\ apc' = "OutCreate"
    /\ UNCHANGED <<tokenInfo, loginDlg, cookie, lastOut>>
    /\ UNCHANGED <<cvars, pvars, jvars>>

\* line 79
OutCreate ==
    /\ apc = "OutCreate"
    /\ logoutDlg' = "created"
    /\ authCalls' = Append(authCalls,
                           [op |-> "PavloviaMiniBrowser", arg |-> <<"logoutOnly">>])
    /\ apc' = "OutLogout"
    /\ UNCHANGED <<session, tokenInfo, loginDlg, cookie, aret, acall, lastCall,
                   lastOut>>
    /\ UNCHANGED <<cvars, pvars, jvars>>

\* line 80
OutLogout ==
    /\ apc = "OutLogout"
    /\ cookie' = FALSE
    /\ authCalls' = Append(authCalls, [op |-> "dlg.logout", arg |-> None])
    /\ apc' = "OutDestroy"
    /\ UNCHANGED <<session, tokenInfo, loginDlg, logoutDlg, aret, acall,
                   lastCall, lastOut>>
    /\ UNCHANGED <<cvars, pvars, jvars>>

\* line 81, then the function falls off its end
OutDestroyLeak ==
    /\ apc = "OutDestroy"
    /\ authCalls' = Append(authCalls, [op |-> "dlg.Destroy", arg |-> None])
    /\ aret' = None
    /\ apc' = "Return"
    /\ UNCHANGED <<session, tokenInfo, loginDlg, logoutDlg, cookie, acall,
                   lastCall, lastOut>>
    /\ UNCHANGED <<cvars, pvars, jvars>>

OutDestroy ==
    /\ apc = "OutDestroy"
    /\ logoutDlg' = "destroyed"
    /\ authCalls' = Append(authCalls, [op |-> "dlg.Destroy", arg |-> None])
    /\ aret' = None
    /\ apc' = "Return"
    /\ UNCHANGED <<session, tokenInfo, loginDlg, cookie, acall, lastCall,
                   lastOut>>
    /\ UNCHANGED <<cvars, pvars, jvars>>

\* what a call leaves behind
AuthState == [session |-> session, cookie |-> cookie,
              loginDlg |-> loginDlg, logoutDlg |-> logoutDlg]

AuthReturn ==
    /\ apc = "Return"
    /\ apc' = "Idle"
    /\ lastOut' = IF acall = "logOutPavlovia" THEN Some(AuthState) ELSE lastOut
    /\ UNCHANGED <<session, tokenInfo, loginDlg, logoutDlg, cookie, authCalls,
                   aret, acall, lastCall>>
    /\ UNCHANGED <<cvars, pvars, jvars>>

NextAuth ==
    \/ logInPavlovia
    \/ LoginCompleted
    \/ LoginDismissed
    \/ Login
    \/ ReadUser
    \/ logOutPavlovia
    \/ OutCreate
    \/ OutLogout
    \/ OutDestroy
    \/ AuthReturn

(***************************************************************************)
(* Joystick                                                                *)
(***************************************************************************)
MaxEvents == 2

numberKeys == <<"0", "1", "2", "3", "4", "5", "6", "7", "8", "9">>
modifierKeys == <<"ctrl", "alt">>

\* the keys pressed in the model, one of them not a number key
KeysInUse == {"0", "5", "9", "a"}

KeyEvents == [key : KeysInUse, modifiers : [{"ctrl", "alt"} -> BOOLEAN]]

Range(f) == {f[i] : i \in DOMAIN f}

\* event.getKeys(keyList=keyList, modifiers=True)
getKeys(keyList) == SelectSeq(kb, LAMBDA e : e.key \in Range(keyList))

\* all([modifiers[modKey] for modKey in self.modifierKeys])
AllModifiersAny(m) == \E i \in DOMAIN modifierKeys : m[modifierKeys[i]]
AllModifiers(m) == \A i \in DOMAIN modifierKeys : m[modifierKeys[i]]

\* line 26
Values(keys) == {keys[i].key : i \in {j \in DOMAIN keys : AllModifiers(keys[j].modifiers)}}

\* line 27
ButtonVector(values) == [i \in DOMAIN numberKeys |-> numberKeys[i] \in values]

InitJoy ==
    /\ kb = <<>>
    /\ state = None
    /\ jret = None
    /\ jnum = None
    /\ fresh = FALSE

\* a key goes down while some modifiers are held
KeyPress ==
    /\ Len(kb) < MaxEvents
    /\ \E e \in KeyEvents : kb' = Append(kb, e)
    /\ fresh' = FALSE
    /\ UNCHANGED <<state, jret, jnum>>
    /\ UNCHANGED <<cvars, pvars, avars>>

\* a key goes up
KeyRelease ==
    /\ \E i \in DOMAIN kb :
          kb' = SubSeq(kb, 1, i - 1) \o SubSeq(kb, i + 1, Len(kb))
    /\ fresh' = FALSE
    /\ UNCHANGED <<state, jret, jnum>>
    /\ UNCHANGED <<cvars, pvars, avars>>

\* lines 21-22
getNumButtons ==
    /\ jnum' = Some(Len(numberKeys))
    /\ UNCHANGED <<kb, state, jret, fresh>>
    /\ UNCHANGED <<cvars, pvars, avars>>

\* lines 24-28
getAllButtonsNoCache ==
    /\ jret' = Some(ButtonVector(Values(getKeys(numberKeys))))
    /\ fresh' = TRUE
    /\ UNCHANGED <<kb, state, jnum>>
    /\ UNCHANGED <<cvars, pvars, avars>>

getAllButtons ==
    /\ state' = Some(ButtonVector(Values(getKeys(numberKeys))))
    /\ jret' = state'
    /\ fresh' = TRUE
    /\ UNCHANGED <<kb, jnum>>
    /\ UNCHANGED <<cvars, pvars, avars>>

NextJoy ==
    \/ KeyPress
    \/ KeyRelease
    \/ getNumButtons
    \/ getAllButtons

(***************************************************************************)
(* Specifications                                                          *)
(***************************************************************************)
Init == InitCommit /\ InitPath /\ InitAuth /\ InitJoy

SpecCommit == Init /\ [][NextCommit]_vars
SpecPath == Init /\ [][NextPath]_vars
SpecAuth == Init /\ [][NextAuth]_vars
SpecJoy == Init /\ [][NextJoy]_vars


(***************************************************************************)
(* Properties of showCommitDialog                                          *)
(***************************************************************************)
AllCategoriesEmpty == \A i \in 1..4 : changeDict[Categories[i]] = <<>>

CalledOps == {projCalls[i].op : i \in DOMAIN projCalls}

\* C1: when getChanges() reports all four categories empty, showCommitDialog
\* returns 0 at once: the dialog is never shown and neither stageFiles nor
\* commit is called.
C1_EmptyChangeSetReturnsZero ==
    (cpc # "Idle" /\ AllCategoriesEmpty)
        => /\ cpc = "Return"
           /\ cret = Some(0)
           /\ commitDlg = "none"
           /\ projCalls = <<>>

C1_Witness ==
    /\ cpc = "Return"
    /\ AllCategoriesEmpty
    /\ cret = Some(0)
    /\ commitDlg = "none"

\* C2: when the dialog is shown and cancelled, showCommitDialog returns -1 and
\* no call is made on the project; commit is called only after the user
\* confirmed.
C2_CancelLeavesProjectAlone ==
    /\ commitDlg = "ID_CANCEL"
         => /\ cpc = "Return"
            /\ cret = Some(-1)
            /\ projCalls = <<>>
    /\ "commit" \in CalledOps => commitDlg = "ID_OK"
    /\ "stageFiles" \in CalledOps => commitDlg = "ID_OK"

C2_Witness ==
    /\ commitDlg = "ID_CANCEL"
    /\ cret = Some(-1)
    /\ changeList # <<>>
    /\ projCalls = <<>>

StageCall == [op |-> "stageFiles", arg |-> changeList]
CommitCall == [op |-> "commit", arg |-> commitMsg]

C3_Calls ==
    /\ cpc \in {"Idle", "AwaitUserInput", "Stage"} => projCalls = <<>>
    /\ cpc = "Stage" => commitDlg = "ID_OK" /\ changeList # <<>>
    /\ cpc = "Commit" => projCalls = <<StageCall>>
    /\ cpc = "Return" =>
         /\ cret \in {Some(0), Some(1), Some(-1)}
         /\ cret = Some(1) <=> "commit" \in CalledOps
         /\ cret = Some(1) => projCalls = <<StageCall, CommitCall>>
         /\ cret # Some(1) => projCalls = <<>>
    /\ cpc # "Return" => cret = None

C3_Step ==
    \/ cpc = "Idle" /\ cpc' = "Return" /\ cret' = Some(0)
    \/ cpc = "Idle" /\ cpc' = "AwaitUserInput"
    \/ cpc = "AwaitUserInput" /\ cpc' = "Return" /\ cret' = Some(-1)
    \/ cpc = "AwaitUserInput" /\ cpc' = "Stage"
    \/ cpc = "Stage" /\ cpc' = "Commit"
    \/ cpc = "Commit" /\ cpc' = "Return" /\ cret' = Some(1)
    \/ cpc = "Return" /\ cpc' = "Idle"

\* C3: with changes and a confirmation the workflow runs
\* Idle -> AwaitUserInput -> Stage -> Commit -> Return(1): stageFiles is called
\* once with the list getChanges() returned, then commit once, never the other
\* way round; the result is 0, 1 or -1 and is 1 only if commit was called.
C3_StageThenCommit == [](C3_Calls) /\ [][C3_Step]_vars

C3_Witness ==
    /\ cpc = "Return"
    /\ cret = Some(1)
    /\ Len(changeList) >= 2
    /\ projCalls = <<StageCall, CommitCall>>

\* C4: the message given to commit is s + "\n\n" + d for a summary s and a
\* non-empty detail body d, and is s itself when d is empty.
C4_CommitMessage ==
    \A i \in DOMAIN projCalls :
        projCalls[i].op = "commit" =>
            /\ commitDescrCtrl # <<>> =>
                 projCalls[i].arg
                     = commitTitleCtrl \o <<"\n", "\n">> \o commitDescrCtrl
            /\ commitDescrCtrl = <<>> => projCalls[i].arg = commitTitleCtrl

C4_Witness ==
    /\ "commit" \in CalledOps
    /\ commitTitleCtrl = <<"x">>
    /\ commitDescrCtrl = <<"x">>
    /\ commitMsg = <<"x", "\n", "\n", "x">>

(***************************************************************************)
(* Properties of setLocalPath                                              *)
(***************************************************************************)
\* C5: when the confirmed, resolved path equals the original default path the
\* function returns None and leaves project.localRoot alone; the project is
\* changed only when the new path differs from the original.
C5_NoChangeReturnsNone ==
    /\ (ppc = "Return" /\ dirDlg = "ID_OK" /\ newPath = Some(origPath))
         => pret = None /\ project = projectAtCall
    /\ project # projectAtCall
         => dirDlg = "ID_OK" /\ newPath # Some(origPath)

\* d is the directory that holds the file f
ContainingDir(f, d) ==
    /\ d # <<>>
    /\ \E n \in Names :
          f = (IF d = <<"/">> THEN <<>> ELSE d) \o <<"/", n>>

FileConfirmed == ppc = "Return" /\ dirDlg = "ID_OK" /\ isfile

\* C6 as stated: when the confirmed result names a file, the new path is the
\* file's directory and a supplied project always gets it as localRoot.
C6_FileAlwaysUpdatesRoot ==
    FileConfirmed =>
        /\ ContainingDir(chosen[1], newPath[1])
        /\ project # NoProject => project[1].localRoot = newPath

\* C6: when the confirmed result names a file, the new path is the file's
\* directory; a supplied project gets it as localRoot when it differs from the
\* original default path and is left as it was otherwise.
C6_FileUpdatesRootWhenChanged ==
    FileConfirmed =>
        /\ ContainingDir(chosen[1], newPath[1])
        /\ (project # NoProject /\ newPath # Some(origPath))
             => project[1].localRoot = newPath
        /\ newPath = Some(origPath) => project = projectAtCall

C6_Witness ==
    /\ FileConfirmed
    /\ chosen = Some(<<"/", "a", "/", "f">>)
    /\ newPath = Some(<<"/", "a">>)
    /\ projectAtCall = Some([localRoot |-> Some(<<"/", "f">>)])
    /\ project = Some([localRoot |-> Some(<<"/", "a">>)])

(***************************************************************************)
(* Properties of logInPavlovia and logOutPavlovia                          *)
(***************************************************************************)
AuthOps == [i \in DOMAIN authCalls |-> authCalls[i].op]

\* C7: pavlovia.login is called exactly when the browser closed with a token
\* in tokenInfo: once, with that token and rememberMe=True, before the user of
\* the current session is read and returned; after a dismissal nothing is
\* returned and login is not called.
C7_LoginIffToken ==
    acall = "logInPavlovia" =>
        /\ apc = "Return" =>
             IF "token" \in DOMAIN tokenInfo
             THEN /\ AuthOps = <<"pavlovia.login", "pavlovia.getCurrentSession">>
                  /\ authCalls[1].arg.token = tokenInfo["token"]
                  /\ authCalls[1].arg.rememberMe = TRUE
                  /\ aret = Some(UserOf(tokenInfo["token"]))
             ELSE /\ authCalls = <<>>
                  /\ aret = None
        /\ authCalls # <<>> =>
             /\ loginDlg = "closed"
             /\ "token" \in DOMAIN tokenInfo
             /\ authCalls[1].op = "pavlovia.login"

C7_Witness ==
    /\ acall = "logInPavlovia"
    /\ apc = "Return"
    /\ tokenInfo = [token |-> "t2"]
    /\ Len(authCalls) = 2
    /\ aret = Some(UserOf("t2"))

LogoutOps ==
    <<"pavlovia.logout", "PavloviaMiniBrowser", "dlg.logout", "dlg.Destroy">>

NoSurfaceOpen == loginDlg # "modal" /\ logoutDlg # "created"

ChordHeld(i) ==
    \E j \in DOMAIN kb :
        /\ kb[j].key = ToString(i)
        /\ kb[j].modifiers["ctrl"]
        /\ kb[j].modifiers["alt"]

\* C8: getAllButtons returns ten booleans in digit order, entry i true exactly
\* when digit i is reported with ctrl and alt both held; "5" with both held
\* gives entry 5 alone, a released modifier gives all false; getNumButtons
\* is 10.
C8_ButtonVector ==
    /\ jnum # None => jnum = Some(10)
    /\ (fresh /\ jret # None) =>
         /\ Len(jret[1]) = 10
         /\ \A i \in 0..9 : jret[1][i + 1] = ChordHeld(i)
         /\ (\A j \in DOMAIN kb :
                ~(kb[j].modifiers["ctrl"] /\ kb[j].modifiers["alt"]))
              => \A i \in 1..10 : ~jret[1][i]

C8_Witness ==
    /\ fresh
    /\ jnum = Some(10)
    /\ Len(kb) = 2
    /\ kb[1] = [key |-> "5", modifiers |-> [ctrl |-> TRUE, alt |-> FALSE]]
    /\ kb[2] = [key |-> "5", modifiers |-> [ctrl |-> TRUE, alt |-> TRUE]]
    /\ jret = Some([i \in 1..10 |-> i = 6])

====
